---- MODULE Spec2Model ----
(***************************************************************************)
(* Model of pkg/upstream/http.go: the construction of one HTTP upstream    *)
(* proxy (newHTTPUpstreamProxy, newReverseProxy, the Director chain,       *)
(* newWebSocketReverseProxy) and the handling of requests by               *)
(* httpUpstreamProxy.ServeHTTP and the reverse proxy it delegates to.      *)
(*                                                                         *)
(* Go strings that the code inspects character by character (header        *)
(* values, request targets) are sequences of characters; "" is << >>.      *)
(* A Go pointer or interface is a sequence of length 0 (nil) or 1.         *)
(***************************************************************************)
EXTENDS Naturals, Sequences, FiniteSets

VARIABLES upstream, u, sigData, errorHandler, h, reqs

vars == <<upstream, u, sigData, errorHandler, h, reqs>>

\* Number of requests served concurrently by one Dispatcher in SpecConc.
MaxConcurrent == 2

Nil == << >>
Ptr(x) == <<x>>
Deref(p) == p[1]

-----------------------------------------------------------------------------
(* Strings *)

\* unicode.ToLower on the letters that occur in the modelled header values
ToLower(c) ==
  CASE c = "U" -> "u"
    [] c = "W" -> "w"
    [] c = "S" -> "s"
    [] c = "C" -> "c"
    [] OTHER -> c

\* strings.EqualFold: equality under case folding, of the whole strings
EqualFold(s, t) ==
  /\ Len(s) = Len(t)
  /\ \A i \in 1..Len(s) : ToLower(s[i]) = ToLower(t[i])

upgrade == <<"u","p","g","r","a","d","e">>
websocket == <<"w","e","b","s","o","c","k","e","t">>

\* Header values a client sends
Upgrade_ == <<"U","p","g","r","a","d","e">>
close == <<"c","l","o","s","e">>
keepAliveUpgrade == <<"k","e","e","p","-","a","l","i","v","e",","," ","U","p","g","r","a","d","e">>
WebSocket_ == <<"W","e","b","S","o","c","k","e","t">>
alice == <<"a","l","i","c","e">>
mallory == <<"m","a","l","l","o","r","y">>

-----------------------------------------------------------------------------
(* Headers: http.Header, a map from canonical names to lists of values *)

SignatureHeader == "GAP-Signature"

SignatureHeaders == <<
  "Content-Length",
  "Content-Md5",
  "Content-Type",
  "Date",
  "Authorization",
  "X-Forwarded-User",
  "X-Forwarded-Email",
  "X-Forwarded-Preferred-User",
  "X-Forwarded-Access-Token",
  "Cookie",
  "Gap-Auth" >>

\* http.CanonicalHeaderKey on the names the code uses
CanonicalHeaderKey(k) ==
  CASE k = "GAP-Signature" -> "Gap-Signature"
    [] k = "GAP-Auth" -> "Gap-Auth"
    [] OTHER -> k

HeaderNames ==
  {SignatureHeaders[i] : i \in 1..Len(SignatureHeaders)}
    \cup {"Gap-Signature", "Connection", "Upgrade"}

\* Header.Get: the first value, "" when the header is absent
Get(hdr, k) ==
  LET v == hdr[CanonicalHeaderKey(k)]
  IN  IF v = << >> THEN << >> ELSE v[1]

\* Header.Set: replaces every value of the header by the one given
Set(hdr, k, v) == [hdr EXCEPT ![CanonicalHeaderKey(k)] = <<v>>]

NoHeaders == [k \in HeaderNames |-> << >>]

-----------------------------------------------------------------------------
(* URLs. A request target is a sequence of units: a character, an escape    *)
(* such as "%2F", or a run of query characters.                            *)

\* url.PathUnescape, one unit
UnescapeUnit(c) == IF c = "%2F" THEN "/" ELSE c

Unescape(s) == [i \in 1..Len(s) |-> UnescapeUnit(s[i])]

\* Index of the first "?" of s, 0 when there is none
RECURSIVE IndexQuery(_, _)
IndexQuery(s, i) ==
  IF i > Len(s) THEN 0
  ELSE IF s[i] = "?" THEN i
  ELSE IndexQuery(s, i + 1)

\* url.ParseRequestURI of an origin-form target, as the server does for req.URL:
\* Path is the decoded path, RawPath is kept only when the target's encoding is
\* not the default encoding of Path
ParseRequestURI(raw) ==
  LET q == IndexQuery(raw, 1)
      rawpath == IF q = 0 THEN raw ELSE SubSeq(raw, 1, q - 1)
      query == IF q = 0 THEN << >> ELSE SubSeq(raw, q + 1, Len(raw))
      path == Unescape(rawpath)
  IN  [Scheme |-> "", Host |-> "", Opaque |-> << >>,
       Path |-> path,
       RawPath |-> IF path = rawpath THEN << >> ELSE rawpath,
       RawQuery |-> query,
       ForceQuery |-> FALSE]

\* URL.EscapedPath: RawPath when it is a valid encoding of Path, else the
\* default encoding of Path (which leaves "/" as it is)
EscapedPath(url) ==
  IF url.RawPath # << >> /\ Unescape(url.RawPath) = url.Path
  THEN url.RawPath
  ELSE url.Path

\* URL.RequestURI: the target written on the outbound request line
RequestTarget(url) ==
  LET base ==
        IF url.Opaque = << >>
        THEN (IF EscapedPath(url) = << >> THEN <<"/">> ELSE EscapedPath(url))
        ELSE IF Len(url.Opaque) >= 2 /\ SubSeq(url.Opaque, 1, 2) = <<"/", "/">>
             THEN <<url.Scheme, ":">> \o url.Opaque
             ELSE url.Opaque
  IN  IF url.ForceQuery \/ url.RawQuery # << >>
      THEN base \o <<"?">> \o url.RawQuery
      ELSE base

-----------------------------------------------------------------------------
(* The Signature Engine (hmacauth), as a symbolic keyed hash: the code is   *)
(* determined by the hash, the key and the signed parts of the request.     *)

\* hmacauth.NewHmacAuth(hash, key, header, headers)
NewHmacAuth(hash, key, header, headers) ==
  [Hash |-> hash, Key |-> key, Header |-> header,
   Headers |-> [i \in 1..Len(headers) |-> CanonicalHeaderKey(headers[i])]]

\* HmacAuth.RequestSignature: over the method, the value of each listed
\* header in order ("" when the header is absent) and the request URI
RequestSignature(auth, req) ==
  [Hash |-> auth.Hash, Key |-> auth.Key, Method |-> req.Method,
   Values |-> [i \in 1..Len(auth.Headers) |-> Get(req.Header, auth.Headers[i])],
   URI |-> <<req.URL.Path, req.URL.RawQuery>>]

\* A SignRequest that adds the signature only when the header is absent
SignRequestKeepsExisting(auth, req) ==
  IF req.Header[CanonicalHeaderKey(auth.Header)] # << >> THEN req
  ELSE [req EXCEPT !.Header = Set(req.Header, auth.Header, RequestSignature(auth, req))]

\* HmacAuth.SignRequest: req.Header.Set(auth.header, RequestSignature(req))
SignRequest(auth, req) ==
  [req EXCEPT !.Header = Set(req.Header, auth.Header, RequestSignature(auth, req))]

-----------------------------------------------------------------------------
(* The Director chain: a sequence of rewrite steps, applied in order; each  *)
(* wrapper calls the previous director first, then makes its own change.    *)

\* The director of httputil.NewSingleHostReverseProxy(target): the target's
\* scheme and host, its path (cleared at construction) joined with the
\* request's, and the two queries merged
DefaultDirector(target, req) ==
  [req EXCEPT
     !.URL.Scheme = target.Scheme,
     !.URL.Host = target.Host,
     !.URL.Path = target.Path \o req.URL.Path,
     !.URL.RawPath = IF req.URL.RawPath = << >> THEN << >>
                     ELSE target.Path \o req.URL.RawPath,
     !.URL.RawQuery = IF target.RawQuery = << >> \/ req.URL.RawQuery = << >>
                      THEN target.RawQuery \o req.URL.RawQuery
                      ELSE target.RawQuery \o <<"&">> \o req.URL.RawQuery]

\* A setProxyDirector that leaves the parsed query in place
EscapeDirectorKeepsQuery(req) ==
  [req EXCEPT !.URL.Opaque = req.RequestURI]

\* The closure of setProxyDirector, after the wrapped director
EscapeDirector(req) ==
  [req EXCEPT !.URL.Opaque = req.RequestURI,
              !.URL.RawQuery = << >>,
              !.URL.ForceQuery = FALSE]

\* The closure of setProxyUpstreamHostHeader, after the wrapped director
UpstreamHostDirector(target, req) ==
  [req EXCEPT !.Host = target.Host]

RunStep(step, target, req) ==
  CASE step = "default" -> DefaultDirector(target, req)
    [] step = "escape" -> EscapeDirector(req)
    [] step = "upstreamHost" -> UpstreamHostDirector(target, req)

\* proxy.Director(req): the steps in the order they were wrapped
RECURSIVE RunDirector(_, _, _)
RunDirector(director, target, req) ==
  IF director = << >> THEN req
  ELSE RunDirector(Tail(director), target, RunStep(Head(director), target, req))

setProxyDirector(director) == Append(director, "escape")

\* A setProxyUpstreamHostHeader that leaves the director as it was
setProxyUpstreamHostHeaderLost(director) == director

setProxyUpstreamHostHeader(director) == Append(director, "upstreamHost")

-----------------------------------------------------------------------------
(* Construction *)

\* An error handler is never installed
proxyErrorHandlerDropped(handler) == Nil

\* newReverseProxy, the ErrorHandler field: the handler given, when there is one
proxyErrorHandler(handler) == IF handler # Nil THEN handler ELSE Nil

\* httputil.NewSingleHostReverseProxy(target)
NewSingleHostReverseProxy(target) ==
  [Target |-> target, Director |-> <<"default">>, ErrorHandler |-> Nil]

newReverseProxy(target, up, handler) ==
  LET proxy == NewSingleHostReverseProxy(target)
      escaped == setProxyDirector(proxy.Director)
      director ==
        IF up.PassHostHeader # Nil /\ ~Deref(up.PassHostHeader)
        THEN setProxyUpstreamHostHeader(escaped)
        ELSE escaped
  IN  [proxy EXCEPT !.Director = director,
                    !.ErrorHandler = proxyErrorHandler(handler)]

newWebSocketReverseProxy(target) == NewSingleHostReverseProxy(target)

newHTTPUpstreamProxy(up, target, sig, handler) ==
  LET t == [target EXCEPT !.Path = << >>]
  IN  [upstream |-> up.ID,
       handler |-> newReverseProxy(t, up, handler),
       wsHandler |->
         IF up.ProxyWebSockets = Nil \/ Deref(up.ProxyWebSockets)
         THEN Ptr(newWebSocketReverseProxy(t))
         ELSE Nil,
       auth |->
         IF sig # Nil
         THEN Ptr(NewHmacAuth(Deref(sig).Hash, Deref(sig).Key,
                              SignatureHeader, SignatureHeaders))
         ELSE Nil]

-----------------------------------------------------------------------------
(* Inputs *)

Pointers == {Nil, Ptr(TRUE), Ptr(FALSE)}

\* options.Upstream: the fields newHTTPUpstreamProxy reads for dispatch
Upstreams ==
  [ID : {"backend"}, ProxyWebSockets : Pointers, PassHostHeader : Pointers]

\* The resolved upstream URL, before construction clears its path
TargetURLs ==
  [Scheme : {"http"}, Host : {"backend.local"},
   Path : {<<"/", "v", "1">>}, RawQuery : {<< >>}]

SignatureDatas == {Nil, Ptr([Hash |-> "sha1", Key |-> "secret"])}

\* The error page renderer handed to the constructor, or none
ErrorHandlers == {Nil, Ptr("ProxyErrorHandler")}

\* Raw request-line targets, in origin form: a path that begins with one
\* slash, with or without an escaped slash and a query
RequestURIs ==
  { <<"/", "a", "%2F", "b", "?", "x=1">>,
    <<"/", "a", "%2F", "b">>,
    <<"/", "a", "/", "b">> }

\* A GAP-Signature value made without the key
ForgedSignature ==
  [Hash |-> "sha1", Key |-> "guess", Method |-> "GET", Values |-> << >>, URI |-> << >>]

Optional(S) == {<< >>} \cup {<<v>> : v \in S}

\* A request as the server hands it to ServeHTTP
Request(host, uri, connection, upgradeHdr, gapAuth, gapSignature) ==
  [Method |-> "GET", Host |-> host, RequestURI |-> uri,
   URL |-> ParseRequestURI(uri),
   Header |-> [NoHeaders EXCEPT !["Connection"] = connection,
                                !["Upgrade"] = upgradeHdr,
                                !["Gap-Auth"] = gapAuth,
                                !["Gap-Signature"] = gapSignature]]

Requests ==
  { Request(host, uri, c, up, a, s) :
      host \in {"client.example", "backend.local"},
      uri \in RequestURIs,
      c \in Optional({Upgrade_, upgrade, close, keepAliveUpgrade}),
      up \in Optional({websocket, WebSocket_}),
      a \in Optional({mallory}),
      s \in Optional({ForgedSignature}) }

\* The requests of the concurrent specification: they differ in the headers
\* that decide the route
RoutingRequests ==
  { Request("client.example", <<"/", "a", "%2F", "b">>, <<c>>, <<websocket>>, << >>, << >>) :
      c \in {Upgrade_, close} }

\* The response writer as ServeHTTP receives it: the headers the session
\* layer has set on the response so far, nothing written yet
ResponseWriters ==
  { [Header |-> [NoHeaders EXCEPT !["Gap-Auth"] = a], Status |-> 0, Body |-> << >>] :
      a \in Optional({alice}) }

\* One request in flight: the position of its handler (pc), the request, the
\* response writer and the request scope, the request as it was received
\* (client), the handler's steps so far, the handler chosen, the outbound
\* request, and the counts of upstream attempts and error handler calls
Task(req, rw) ==
  [pc |-> "received", req |-> req, rw |-> rw, scope |-> [Upstream |-> ""],
   client |-> req, steps |-> << >>, route |-> "none", out |-> Nil,
   attempts |-> 0, handlerCalls |-> 0, defaultCalls |-> 0, failed |-> FALSE]

-----------------------------------------------------------------------------
(* httpUpstreamProxy.ServeHTTP *)

\* A stamp that leaves the scope as it was
StampScopeSkipped(scope, proxy) == scope

\* scope.Upstream = h.upstream
StampScope(scope, proxy) == [scope EXCEPT !.Upstream = proxy.upstream]

\* A signing block that signs first and copies GAP-Auth afterwards
SignThenGapAuth(auth, req, rw) ==
  LET signed == SignRequest(auth, req)
  IN  [signed EXCEPT !.Header = Set(signed.Header, "GAP-Auth", Get(rw.Header, "GAP-Auth"))]

\* A signing block that keeps the client's GAP-Auth
SignClientGapAuth(auth, req, rw) == SignRequest(auth, req)

\* The signing block, when h.auth is set
Sign(auth, req, rw) ==
  SignRequest(auth, [req EXCEPT !.Header = Set(req.Header, "GAP-Auth", Get(rw.Header, "GAP-Auth"))])

\* A routing condition that looks at the Upgrade header alone
IsWebSocketByUpgradeOnly(proxy, req) ==
  /\ proxy.wsHandler # Nil
  /\ Get(req.Header, "Upgrade") = websocket

\* The condition under which the request goes to the WebSocket handler
IsWebSocket(proxy, req) ==
  /\ proxy.wsHandler # Nil
  /\ EqualFold(Get(req.Header, "Connection"), upgrade)
  /\ Get(req.Header, "Upgrade") = websocket

Stamp(r) ==
  /\ reqs[r].pc = "received"
  /\ reqs' = [reqs EXCEPT ![r].scope = StampScope(@, h),
                          ![r].steps = Append(@, "stamp"),
                          ![r].pc = "stamped"]
  /\ UNCHANGED <<upstream, u, sigData, errorHandler, h>>

SignStep(r) ==
  /\ reqs[r].pc = "stamped"
  /\ reqs' = [reqs EXCEPT
       ![r].req = IF h.auth # Nil THEN Sign(Deref(h.auth), @, reqs[r].rw) ELSE @,
       ![r].steps = IF h.auth # Nil THEN Append(@, "sign") ELSE @,
       ![r].pc = "signed"]
  /\ UNCHANGED <<upstream, u, sigData, errorHandler, h>>

ServeWebSocket(r) ==
  /\ reqs[r].pc = "signed"
  /\ IsWebSocket(h, reqs[r].req)
  /\ reqs' = [reqs EXCEPT ![r].route = "ws",
                          ![r].steps = Append(@, "delegate"),
                          ![r].pc = "delegated"]
  /\ UNCHANGED <<upstream, u, sigData, errorHandler, h>>

ServePlain(r) ==
  /\ reqs[r].pc = "signed"
  /\ ~IsWebSocket(h, reqs[r].req)
  /\ reqs' = [reqs EXCEPT ![r].route = "plain",
                          ![r].steps = Append(@, "delegate"),
                          ![r].pc = "delegated"]
  /\ UNCHANGED <<upstream, u, sigData, errorHandler, h>>

-----------------------------------------------------------------------------
(* httputil.ReverseProxy.ServeHTTP of the handler the request went to *)

Handler(r) ==
  IF reqs[r].route = "ws" THEN Deref(h.wsHandler) ELSE h.handler

\* The reverse proxy's own handler, used when ErrorHandler is nil:
\* status 502 and no body
DefaultErrorHandler(rw) == [rw EXCEPT !.Status = 502, !.Body = << >>]

\* The injected error page renderer
ProxyErrorHandler(rw) == [rw EXCEPT !.Status = 502, !.Body = <<"error page">>]

\* The director runs on a copy of the request
Direct(r) ==
  /\ reqs[r].pc = "delegated"
  /\ reqs' = [reqs EXCEPT
       ![r].out = Ptr(RunDirector(Handler(r).Director, Handler(r).Target, reqs[r].req)),
       ![r].pc = "directed"]
  /\ UNCHANGED <<upstream, u, sigData, errorHandler, h>>

\* Transport.RoundTrip returned a response: it is copied to the client
RoundTripOK(r) ==
  /\ reqs[r].pc = "directed"
  /\ reqs' = [reqs EXCEPT
       ![r].attempts = @ + 1,
       ![r].rw = [@ EXCEPT !.Status = IF reqs[r].route = "ws" THEN 101 ELSE 200,
                           !.Body = <<"upstream response">>],
       ![r].pc = "done"]
  /\ UNCHANGED <<upstream, u, sigData, errorHandler, h>>

\* Transport.RoundTrip returned an error: the error handler runs and
\* ServeHTTP returns
RoundTripFailed(r) ==
  /\ reqs[r].pc = "directed"
  /\ LET handler == Handler(r).ErrorHandler
     IN  reqs' = [reqs EXCEPT
           ![r].attempts = @ + 1,
           ![r].failed = TRUE,
           ![r].handlerCalls = IF handler # Nil THEN @ + 1 ELSE @,
           ![r].defaultCalls = IF handler = Nil THEN @ + 1 ELSE @,
           ![r].rw = IF handler # Nil THEN ProxyErrorHandler(@)
                     ELSE DefaultErrorHandler(@),
           ![r].pc = "done"]
  /\ UNCHANGED <<upstream, u, sigData, errorHandler, h>>

-----------------------------------------------------------------------------
(* Specifications *)

Constructed ==
  /\ upstream \in Upstreams
  /\ \E target \in TargetURLs : u = [target EXCEPT !.Path = << >>]
  /\ sigData \in SignatureDatas
  /\ errorHandler \in ErrorHandlers
  /\ \E target \in TargetURLs :
       h = newHTTPUpstreamProxy(upstream, target, sigData, errorHandler)

\* One request, over every modelled request and response writer
Init ==
  /\ Constructed
  /\ reqs \in [{1} -> {Task(req, rw) : req \in Requests, rw \in ResponseWriters}]

\* MaxConcurrent requests in flight on the same Dispatcher
InitConc ==
  /\ Constructed
  /\ reqs \in [1..MaxConcurrent ->
                 {Task(req, rw) : req \in RoutingRequests, rw \in ResponseWriters}]

Next ==
  \/ \E r \in DOMAIN reqs : Stamp(r)
  \/ \E r \in DOMAIN reqs : SignStep(r)
  \/ \E r \in DOMAIN reqs : ServeWebSocket(r)
  \/ \E r \in DOMAIN reqs : ServePlain(r)
  \/ \E r \in DOMAIN reqs : Direct(r)
  \/ \E r \in DOMAIN reqs : RoundTripOK(r)
  \/ \E r \in DOMAIN reqs : RoundTripFailed(r)

Spec == Init /\ [][Next]_vars

SpecConc == InitConc /\ [][Next]_vars

-----------------------------------------------------------------------------
(* Properties *)

Delegated(r) == reqs[r].route # "none"

Forwarded(r) == reqs[r].out # Nil

\* C1: the Host of the outbound request of the Plain Proxy, after the
\* Director, is the target's host when pass-host-header is explicitly
\* disabled, and the client's Host when it is enabled or unset.
C1_HostHeader ==
  \A r \in DOMAIN reqs :
    (Forwarded(r) /\ reqs[r].route = "plain") =>
      Deref(reqs[r].out).Host =
        (IF upstream.PassHostHeader = Ptr(FALSE) THEN u.Host
         ELSE reqs[r].client.Host)

C1_Witness ==
  \E r \in DOMAIN reqs :
    /\ Forwarded(r) /\ reqs[r].route = "plain"
    /\ upstream.PassHostHeader = Ptr(FALSE)
    /\ reqs[r].client.Host = "client.example"
    /\ Deref(reqs[r].out).Host = "backend.local"

C3_Routing ==
  \A r \in DOMAIN reqs :
    (h.wsHandler # Nil /\ Delegated(r)) =>
      /\ (/\ reqs[r].client.Header["Connection"] = <<Upgrade_>>
          /\ reqs[r].client.Header["Upgrade"] = <<websocket>>)
           => reqs[r].route = "ws"
      /\ reqs[r].client.Header["Connection"] = <<close>>
           => reqs[r].route = "plain"

C3_Witness ==
  \E r \in DOMAIN reqs :
    /\ h.wsHandler # Nil
    /\ reqs[r].client.Header["Connection"] = <<Upgrade_>>
    /\ reqs[r].client.Header["Upgrade"] = <<websocket>>
    /\ reqs[r].route = "ws"

\* Separators of the tokens of a comma-separated header value
IsSeparator(c) == c = "," \/ c = " "

\* The header value s has the token tok, compared without regard to case
HasToken(s, tok) ==
  \E i \in 1..Len(s), j \in 1..Len(s) :
    /\ i <= j
    /\ i = 1 \/ IsSeparator(s[i - 1])
    /\ j = Len(s) \/ IsSeparator(s[j + 1])
    /\ \A k \in i..j : ~IsSeparator(s[k])
    /\ EqualFold(SubSeq(s, i, j), tok)

\* C4: with a WebSocket Proxy, every request whose Connection header has the
\* token "upgrade" in any letter case, alone or among other tokens, and whose
\* Upgrade header is exactly "websocket" goes to the WebSocket Proxy; a
\* request whose Upgrade value is anything else goes to the Plain Proxy.
C4_TokenRouting ==
  \A r \in DOMAIN reqs :
    (h.wsHandler # Nil /\ Delegated(r)) =>
      /\ (/\ HasToken(Get(reqs[r].client.Header, "Connection"), upgrade)
          /\ Get(reqs[r].client.Header, "Upgrade") = websocket)
           => reqs[r].route = "ws"
      /\ Get(reqs[r].client.Header, "Upgrade") # websocket
           => reqs[r].route = "plain"

\* Some step of request r can still be taken
Running(r) ==
  ENABLED (\/ Stamp(r) \/ SignStep(r) \/ ServeWebSocket(r) \/ ServePlain(r)
           \/ Direct(r) \/ RoundTripOK(r) \/ RoundTripFailed(r))

\* C5: on the Plain Proxy with an error handler configured, a request whose
\* upstream connection failed has had exactly one upstream attempt and exactly
\* one call of the configured handler and has terminated; no request has more
\* than one attempt; a request whose connection did not fail has no handler
\* call.
C5_ErrorHandlerOnce ==
  \A r \in DOMAIN reqs :
    (errorHandler # Nil /\ reqs[r].route = "plain") =>
      /\ reqs[r].attempts <= 1
      /\ reqs[r].failed =>
           /\ reqs[r].attempts = 1
           /\ reqs[r].handlerCalls = 1
           /\ reqs[r].defaultCalls = 0
           /\ reqs[r].pc = "done"
           /\ ~Running(r)
      /\ ~reqs[r].failed => reqs[r].handlerCalls = 0

C5_Witness ==
  \E r \in DOMAIN reqs :
    /\ errorHandler # Nil /\ reqs[r].route = "plain"
    /\ reqs[r].failed /\ reqs[r].handlerCalls = 1 /\ reqs[r].pc = "done"

\* C6: every request whose upstream connection failed ends with a non-empty
\* error response, on both routes, with or without an error handler.
C6_NonEmptyErrorResponse ==
  \A r \in DOMAIN reqs :
    (reqs[r].failed /\ reqs[r].pc = "done") => reqs[r].rw.Body # << >>

IsPrefix(s, t) == Len(s) <= Len(t) /\ s = SubSeq(t, 1, Len(s))

\* C7: with a SignatureContext, the steps of a request are, in order, stamp,
\* sign, delegate; when a forwarding handler has been invoked the scope is
\* stamped and the signature header holds the signature of the request as it
\* is handed over, so no signed part changed after signing.
C7_SignBeforeDelegate ==
  \A r \in DOMAIN reqs :
    h.auth # Nil =>
      /\ IsPrefix(reqs[r].steps, <<"stamp", "sign", "delegate">>)
      /\ Delegated(r) =>
           /\ reqs[r].steps = <<"stamp", "sign", "delegate">>
           /\ reqs[r].scope.Upstream = h.upstream
           /\ reqs[r].req.Header["Gap-Signature"] =
                <<RequestSignature(Deref(h.auth), reqs[r].req)>>

C7_Witness ==
  \E r \in DOMAIN reqs :
    /\ h.auth # Nil
    /\ reqs[r].pc = "delegated" /\ reqs[r].route = "ws"
    /\ reqs[r].client.Header["Gap-Auth"] # reqs[r].rw.Header["Gap-Auth"]
    /\ reqs[r].req.Header["Gap-Signature"] =
         <<RequestSignature(Deref(h.auth), reqs[r].req)>>

\* C8 as stated: without a SignatureContext the request handed to the
\* forwarding handler has no GAP-Signature header, whatever the client sent;
\* with one, the header is the computed code, never the client's value.
C8_Original ==
  \A r \in DOMAIN reqs :
    Delegated(r) =>
      /\ h.auth = Nil => reqs[r].req.Header["Gap-Signature"] = << >>
      /\ h.auth # Nil =>
           /\ reqs[r].req.Header["Gap-Signature"] =
                <<RequestSignature(Deref(h.auth), reqs[r].req)>>
           /\ reqs[r].req.Header["Gap-Signature"] # reqs[r].client.Header["Gap-Signature"]

\* C8 amended: without a SignatureContext the Dispatcher leaves GAP-Signature
\* as the client sent it (absent when the client sent none); with one, the
\* header is the computed code, never the client's value.
C8_SignatureOnlyFromEngine ==
  \A r \in DOMAIN reqs :
    Delegated(r) =>
      /\ h.auth = Nil =>
           reqs[r].req.Header["Gap-Signature"] = reqs[r].client.Header["Gap-Signature"]
      /\ h.auth # Nil =>
           /\ reqs[r].req.Header["Gap-Signature"] =
                <<RequestSignature(Deref(h.auth), reqs[r].req)>>
           /\ reqs[r].req.Header["Gap-Signature"] # reqs[r].client.Header["Gap-Signature"]

C8_Witness ==
  \E r \in DOMAIN reqs :
    /\ Delegated(r)
    /\ h.auth # Nil
    /\ reqs[r].client.Header["Gap-Signature"] = <<ForgedSignature>>
    /\ reqs[r].req.Header["Gap-Signature"] =
         <<RequestSignature(Deref(h.auth), reqs[r].req)>>

\* C9: with several requests in flight in any interleaving, the Dispatcher
\* is still what construction made it, the scope of every request past the
\* stamp records the Dispatcher's upstream identifier, and the handler a
\* request went to is decided by its own Connection and Upgrade headers.
C9_ConcurrentIsolation ==
  /\ h = newHTTPUpstreamProxy(upstream, u, sigData, errorHandler)
  /\ \A r \in DOMAIN reqs :
       /\ reqs[r].pc # "received" => reqs[r].scope.Upstream = upstream.ID
       /\ Delegated(r) =>
            (reqs[r].route = "ws" <=>
               /\ h.wsHandler # Nil
               /\ EqualFold(Get(reqs[r].client.Header, "Connection"), upgrade)
               /\ Get(reqs[r].client.Header, "Upgrade") = websocket)

C9_Witness ==
  \E r1 \in DOMAIN reqs, r2 \in DOMAIN reqs :
    /\ r1 # r2
    /\ reqs[r1].route = "ws" /\ reqs[r1].pc = "delegated"
    /\ reqs[r2].route = "plain" /\ reqs[r2].pc = "directed"
    /\ reqs[r1].scope.Upstream = "backend"
    /\ reqs[r2].scope.Upstream = "backend"

\* C10: with signing enabled, once the signing block has run the request's
\* GAP-Auth header is the response writer's GAP-Auth value ("" when it has
\* none), that value is the one in the signature, and it is the one
\* forwarded; with signing disabled the Dispatcher leaves every request
\* header as the client sent it.
C10_GapAuthFromResponse ==
  \A r \in DOMAIN reqs :
    reqs[r].pc \notin {"received", "stamped"} =>
      /\ h.auth # Nil =>
           /\ reqs[r].req.Header["Gap-Auth"] = <<Get(reqs[r].rw.Header, "GAP-Auth")>>
           /\ Get(reqs[r].req.Header, SignatureHeader).Values[Len(SignatureHeaders)] =
                Get(reqs[r].rw.Header, "GAP-Auth")
           /\ Forwarded(r) =>
                Deref(reqs[r].out).Header["Gap-Auth"] =
                  <<Get(reqs[r].rw.Header, "GAP-Auth")>>
      /\ h.auth = Nil => reqs[r].req.Header = reqs[r].client.Header

C10_Witness ==
  \E r \in DOMAIN reqs :
    /\ h.auth # Nil
    /\ reqs[r].pc = "delegated"
    /\ reqs[r].client.Header["Gap-Auth"] = <<mallory>>
    /\ reqs[r].rw.Header["Gap-Auth"] = << >>
    /\ reqs[r].req.Header["Gap-Auth"] = << << >> >>

====
